---- MODULE Spec2Model ----
(***************************************************************************)
(* Weekly review digest: the three drivers of the pipeline                 *)
(*   "http"     main.summarize_and_load   (single window or AUTO_LOOP)     *)
(*   "backfill" backfill.main             (week loop around the pipeline)  *)
(*   "runner"   backfill_runner.main      (week loop, delete-before-load)  *)
(* and the per-window pipeline they drive.  Dates are day numbers; day 0   *)
(* is a Monday, so d % 7 is Python's date.weekday() (Mon=0..Sun=6).        *)
(* Warehouse tables are bags of rows, without their timestamp columns.     *)
(***************************************************************************)
EXTENDS Integers, Sequences, FiniteSets, Bags, TLC

VARIABLES
    prog,       \* the driver that runs
    env,        \* its request and environment variables
    pc,         \* where the driver is: "start", "loop", "done"
    rng,        \* the (aligned) range <<start, end>> its week loop covers
    cur,        \* the week generator's cursor
    ok, fail,   \* the week loop's counters
    results,    \* the per-week results the HTTP handler collects
    attempts,   \* the windows handed to the pipeline so far, in order
    outcomes,   \* how each of them ended: "" or the exception raised
    call,       \* the last library function applied on its own: name, input, result
    report,     \* what the driver reports to its caller when it ends
    summaryT, tagsT, gradesT,   \* the warehouse tables
    window,     \* the last window run, and of that run:
    log,        \*   the trace of its steps
    zero_days,  \*   the days its completeness check reported
    fetched,    \*   the reviews its fetch returned
    raised,     \*   the exception it ended with ("" if none)
    source,     \* backfill_runner: the reviews table, per window read so far
    run,        \* backfill_runner: which invocation this is
    prev        \* backfill_runner: how the previous invocation ended

vars == <<call, prog, env, pc, rng, cur, ok, fail, results, attempts, outcomes, report,
          summaryT, tagsT, gradesT, window, log, zero_days, fetched, raised,
          source, run, prev>>

(* ------------------------------ bounds -------------------------------- *)
\* the requested range starts 0..MaxStartShift days after the first Friday
MaxStartShift == 1
\* and ends 0..MaxEndShift days before one of the Thursdays that follow
MaxEndShift == 1
\* of the next MaxWeeks weeks
MaxWeeks == 3
\* a range that does not fall on week boundaries spans at most this many weeks
MaxShiftedWeeks == 2
\* calendar days of a window that may lack a review in one fetch
MaxZeroDays == 1
\* external calls that may fail within one window run
MaxFailures == 1
\* the dates handed to the calendar functions: MaxDate + 1 consecutive days
MaxDate == 13
\* reviews in a batch handed to the tagger or the mention counter
MaxBatch == 2

(* ----------------------------- calendar ------------------------------- *)
FRIDAY == 4
THURSDAY == 3
FirstFriday == 4
NoDate == -1

Weekday(d) == d % 7

Min(a, b) == IF a <= b THEN a ELSE b

\* F(v), with v evaluated once
Bind(v, F(_)) == CHOOSE r \in {F(x) : x \in {v}} : TRUE

\* a Friday sent to the Friday before it
align_to_friday_never_stays(d) == d - (((Weekday(d) - FRIDAY - 1) % 7) + 1)

\* the Thursday on or before d
align_to_thursday_backward(d) == d - ((Weekday(d) - THURSDAY) % 7)

iter_weeks_yield_unclipped(c, e) == <<c, c + 6>>

align_to_friday(d) == d - ((Weekday(d) - FRIDAY) % 7)

align_to_thursday(d) == d + ((THURSDAY - Weekday(d)) % 7)

\* one step of a week generator: the window yielded at cursor c
iter_weeks_yield(c, e) == <<c, Min(c + 6, e)>>

\* backfill_runner's generator does not clip the last window
runner_weeks_yield(c, e) == <<c, c + 6>>

\* a week of seven days counted as eight
last_complete_fri_to_thu_long_week(today) ==
    LET weekday == Weekday(today)
        days_since_thu == IF weekday >= 4 THEN weekday - 3 ELSE weekday + 4
    IN <<today - days_since_thu - 7, today - days_since_thu>>

\* Friday taken with Monday..Thursday
last_complete_fri_to_thu_friday_wraps(today) ==
    LET weekday == Weekday(today)
        days_since_thu == IF weekday > 4 THEN weekday - 3 ELSE weekday + 4
    IN <<today - days_since_thu - 6, today - days_since_thu>>

\* utils.last_complete_fri_to_thu(today): (last_fri, last_thu)
last_complete_fri_to_thu(today) ==
    LET weekday == Weekday(today)
        days_since_thu == IF weekday >= 4 THEN weekday - 3 ELSE weekday + 4
        last_thu == today - days_since_thu
        last_fri == last_thu - 6
    IN <<last_fri, last_thu>>

\* backfill.iter_weeks, all its windows in order
RECURSIVE iter_weeks(_, _)
iter_weeks(start, end) ==
    IF start <= end
    THEN <<iter_weeks_yield(start, end)>> \o iter_weeks(start + 7, end)
    ELSE <<>>

\* main._iter_fri_thu_weeks, all its windows in order
RECURSIVE _iter_fri_thu_weeks(_, _)
_iter_fri_thu_weeks(start, end) ==
    IF start <= end
    THEN <<iter_weeks_yield(start, end)>> \o _iter_fri_thu_weeks(start + 7, end)
    ELSE <<>>

\* backfill_runner._iter_fri_thu_weeks, all its windows in order
RECURSIVE runner_iter_fri_thu_weeks(_, _)
runner_iter_fri_thu_weeks(start_d, end_d) ==
    IF start_d <= end_d
    THEN <<runner_weeks_yield(start_d, end_d)>> \o runner_iter_fri_thu_weeks(start_d + 7, end_d)
    ELSE <<>>

(* ------------------------------- text --------------------------------- *)
\* a text is a tuple of one-character strings; Python's None is NoneVal
NoneVal == <<"<None>">>

Lower(c) == CASE c = "A" -> "a" [] c = "B" -> "b" [] c = "N" -> "n" [] OTHER -> c

LowerStr(s) == [i \in 1..Len(s) |-> Lower(s[i])]

\* str(x)
PyStr(x) == IF x = NoneVal THEN <<"N", "o", "n", "e">> ELSE x

RECURSIVE LStrip(_)
LStrip(s) == IF s # <<>> /\ Head(s) = " " THEN LStrip(Tail(s)) ELSE s

RECURSIVE RStrip(_)
RStrip(s) == IF s # <<>> /\ s[Len(s)] = " " THEN RStrip(SubSeq(s, 1, Len(s) - 1)) ELSE s

Strip(s) == RStrip(LStrip(s))

\* kw in text
Contains(text, kw) ==
    \E i \in 0..(Len(text) - Len(kw)) : SubSeq(text, i + 1, i + Len(kw)) = kw

RECURSIVE Flatten(_)
Flatten(ss) == IF ss = <<>> THEN <<>> ELSE Head(ss) \o Flatten(Tail(ss))

RECURSIVE BagOfSeq(_)
BagOfSeq(rows) ==
    IF rows = <<>> THEN EmptyBag ELSE SetToBag({Head(rows)}) (+) BagOfSeq(Tail(rows))

(* ------------------------- keyword mappings --------------------------- *)
\* VERSIONS of process_window, version_to_csv of backfill_runner
VERSIONS == <<"v1.0", "v2.0", "v3.0">>

\* the rows of data/review_keywords*.csv: a category and its keywords
\* cell, already split at the commas (sample mappings)
KeywordsCsv(v) ==
    CASE v = "v1.0" -> << [category |-> "Care",
                           keywords |-> << <<"a">>, <<"A", " ">>, <<" ">> >>] >>
      [] v = "v2.0" -> << [category |-> "Care", keywords |-> << <<"a", "b">> >>],
                          [category |-> "Billing", keywords |-> << <<" ", "b">> >>] >>
      [] OTHER      -> << [category |-> "Tech", keywords |-> << <<"o", "n">> >>] >>

\* an ordered category -> keywords mapping: keywords trimmed, blanks dropped
load_review_categories(v) ==
    LET csv == KeywordsCsv(v)
        Trimmed(kws) == SelectSeq([k \in 1..Len(kws) |-> Strip(kws[k])],
                                  LAMBDA kw : kw # <<>>)
    IN [c \in 1..Len(csv) |->
          [category |-> csv[c].category, keywords |-> Trimmed(csv[c].keywords)]]

(* ------------------------------ tagger -------------------------------- *)
\* the rows one review contributes for one category, keywords in order
KeywordRows(r, cat) ==
    LET cand == [i \in 1..Len(cat.keywords) |->
                    [review_foreign_key |-> r.primary_key,
                     category |-> cat.category,
                     keyword |-> LowerStr(Strip(cat.keywords[i])),
                     review_comment |-> r.review_comment,
                     review_date |-> r.date]]
    IN Bind(LowerStr(PyStr(r.review_comment)), LAMBDA review_text :
         SelectSeq(cand, LAMBDA row : row.keyword # <<>> /\ Contains(review_text, row.keyword)))

ReviewRows(r, categories) ==
    Flatten([c \in 1..Len(categories) |-> KeywordRows(r, categories[c])])

TagKey(row) == <<row.review_foreign_key, row.category, row.keyword>>

drop_duplicates_keeps_all(rows) == rows

\* DataFrame.drop_duplicates(subset=...): the first of each key is kept
drop_duplicates(rows) ==
    Bind(SelectSeq([i \in 1..Len(rows) |-> i],
                   LAMBDA i : \A j \in 1..(i - 1) : TagKey(rows[j]) # TagKey(rows[i])),
         LAMBDA first : [k \in 1..Len(first) |-> rows[first[k]]])

tag_reviews_dataframe(reviews, categories, mapping_version) ==
    LET Stamp(dedup) ==
            [i \in 1..Len(dedup) |->
               [review_foreign_key |-> dedup[i].review_foreign_key,
                category |-> dedup[i].category,
                keyword |-> dedup[i].keyword,
                review_comment |-> dedup[i].review_comment,
                review_date |-> dedup[i].review_date,
                mapping_version |-> mapping_version]]
    IN Bind(Flatten([i \in 1..Len(reviews) |-> ReviewRows(reviews[i], categories)]),
            LAMBDA matches : Bind(drop_duplicates(matches), Stamp))

\* the rows load_review_tags_to_bq appends: stamped with the window
TagRowsForLoad(tagged, start_date, end_date) ==
    [i \in 1..Len(tagged) |->
        [review_foreign_key |-> tagged[i].review_foreign_key,
         category |-> tagged[i].category,
         keyword |-> tagged[i].keyword,
         review_comment |-> tagged[i].review_comment,
         review_date |-> tagged[i].review_date,
         mapping_version |-> tagged[i].mapping_version,
         week_start |-> start_date,
         week_end |-> end_date]]

(* ------------------------ warehouse and model ------------------------- *)
\* what the collaborators do during one window run: the reviews the fetch
\* returns and the external calls that fail
RECURSIVE SubsetsUpTo(_, _)
SubsetsUpTo(S, k) ==
    IF k = 0 THEN {{}}
    ELSE LET P == SubsetsUpTo(S, k - 1) IN P \cup {p \cup {x} : p \in P, x \in S}

Comments == << <<"A", "b">>, <<"o", "n", " ", "a">>, NoneVal >>

Review(pk, d) ==
    [primary_key |-> pk, date |-> d, review_comment |-> Comments[(pk % 3) + 1]]

\* what a fetch may return for a window: nothing, or one review per day of
\* the window except up to MaxZeroDays of its first, second and last day,
\* with or without two stray rows (one dated after the window, one undated)
ReviewUniverse(ws, we) ==
    [i \in 1..(we - ws + 1) |-> Review(ws + i - 1, ws + i - 1)]
        \o << Review(we + 1, we + 1), Review(we + 2, NoDate) >>

FetchChoices(ws, we) ==
    {<<>>} \cup
    { SelectSeq(ReviewUniverse(ws, we),
                LAMBDA r : r.date \notin missing /\ (strays \/ r.primary_key <= we)) :
        missing \in SubsetsUpTo({ws, ws + 1, we}, MaxZeroDays), strays \in BOOLEAN }

\* the content of a model reply as json.loads sees it: text that does not
\* parse, a JSON object, or a JSON array of objects and strings
Json(type, value) == [type |-> type, value |-> value]

\* a reply of the model that parses as a JSON array of objects (sample)
ModelReply ==
    Json("list", << Json("dict", [category |-> "Care", grade |-> "A"]),
                    Json("dict", [category |-> "Tech", grade |-> "C-"]) >>)

\* an oracle o, the outside world of one run: the reviews the fetch returns
\* (o.reviews), which of the run's external calls fail, by their position
\* among its calls (o.fails), and what the model replies to the grading
\* prompt (o.reply)
OracleWith(reviews, fails, reply) == [reviews |-> reviews, fails |-> fails, reply |-> reply]

Oracle(reviews, fails) == OracleWith(reviews, fails, ModelReply)

FailChoices(ncalls) == SubsetsUpTo(1..ncalls, MaxFailures)

(* ------------------------- one window's run --------------------------- *)
\* w: the run so far: tables S (summaries), T (tags), G (grades), the trace
\* of its steps, and whether an exception is propagating
\* what the last function called returned: its Python type and the value
Returns(type, value) == [type |-> type, value |-> value]

NoReturn == Returns("None", <<>>)

WindowStart(S, T, G) ==
    [raised |-> FALSE, exc |-> "", log |-> <<>>, calls |-> 0, S |-> S, T |-> T, G |-> G,
     zero |-> {}, graded |-> <<>>, summary_ok |-> FALSE, ret |-> NoReturn]

\* a step of the run that is no external call
Ev(w, e, v, good) == [w EXCEPT !.log = Append(@, [ev |-> e, v |-> v, ok |-> good])]

\* an external call (warehouse, model, mapping file) and whether it succeeded
Called(w, e, v, good) == [Ev(w, e, v, good) EXCEPT !.calls = @ + 1]

\* whether the next external call of the run fails
Fails(w, o) == (w.calls + 1) \in o.fails

Raise(w, exc) == [w EXCEPT !.raised = TRUE, !.exc = exc]

\* a Python call binds only the keyword arguments the function declares
CallBinds(params, kwargs) == kwargs \subseteq params

get_reviews(w, o) ==
    IF Fails(w, o) THEN Raise(Called(w, "fetch", "-", FALSE), "WarehouseError")
    ELSE Called(w, "fetch", "-", TRUE)

\* the Counter of process_window: reviews per day of the window
RECURSIVE PerDayCount(_, _, _)
PerDayCount(reviews, start_date, end_date) ==
    IF reviews = <<>> THEN EmptyBag
    ELSE LET d == reviews[Len(reviews)].date
         IN Bind(PerDayCount(SubSeq(reviews, 1, Len(reviews) - 1), start_date, end_date),
                 LAMBDA cnt : IF d = NoDate THEN cnt
                              ELSE IF start_date <= d /\ d <= end_date
                                   THEN cnt (+) SetToBag({d})
                              ELSE cnt)

\* a check that leaves out the last day of the window
ZeroDays_skips_last_day(reviews, start_date, end_date) ==
    LET all_days == [i \in 1..(end_date - start_date) |-> start_date + i - 1]
        cnt == BagOfSeq([i \in 1..Len(reviews) |-> reviews[i].date])
    IN SelectSeq(all_days, LAMBDA day : CopiesIn(day, cnt) = 0)

ZeroDays(reviews, start_date, end_date) ==
    LET all_days == [i \in 1..(end_date - start_date + 1) |-> start_date + i - 1]
    IN Bind(PerDayCount(reviews, start_date, end_date), LAMBDA cnt :
         SelectSeq(all_days, LAMBDA day : CopiesIn(day, cnt) = 0))

CompletenessCheck(w, reviews, start_date, end_date) ==
    IF w.raised THEN w
    ELSE Bind(ZeroDays(reviews, start_date, end_date), LAMBDA zero_seq :
           IF zero_seq # <<>>
           THEN Raise([Ev(w, "check", "-", FALSE) EXCEPT
                         !.zero = {zero_seq[i] : i \in 1..Len(zero_seq)}], "RuntimeError")
           ELSE Ev(w, "check", "-", TRUE))

\* a summarizer without the guard for an empty batch
generate_summaries_asks_model_for_nothing(w, o, reviews) ==
    IF w.raised THEN w
    ELSE IF Fails(w, o) THEN Raise(Called(w, "model_wins", "-", FALSE), "ModelError")
    ELSE IF Fails(Called(w, "model_wins", "-", TRUE), o)
         THEN Raise(Called(Called(w, "model_wins", "-", TRUE), "model_opps", "-", FALSE),
                    "ModelError")
    ELSE [Called(Called(w, "model_wins", "-", TRUE), "model_opps", "-", TRUE) EXCEPT
            !.ret = Returns("tuple", <<"wins", "opps">>)]

\* two model calls, neither guarded; an empty batch returns the marker string
generate_summaries(w, o, reviews) ==
    IF w.raised THEN w
    ELSE IF reviews = <<>> THEN [w EXCEPT !.ret = Returns("str", "No new reviews.")]
    ELSE IF Fails(w, o) THEN Raise(Called(w, "model_wins", "-", FALSE), "ModelError")
    ELSE Bind(Called(w, "model_wins", "-", TRUE), LAMBDA wins :
           IF Fails(wins, o) THEN Raise(Called(wins, "model_opps", "-", FALSE), "ModelError")
           ELSE [Called(wins, "model_opps", "-", TRUE) EXCEPT
                   !.ret = Returns("tuple", <<"wins", "opps">>)])

\* wins, opps = generate_summaries(reviews): a string does not unpack into two
UnpackSummaries(w) ==
    IF w.raised THEN w
    ELSE IF w.ret.type # "tuple" THEN Raise(w, "ValueError")
    ELSE w

\* insert_rows_json reports the errors of the insert, which are returned as False
load_summaries(w, o, start_date, end_date, review_count) ==
    IF w.raised THEN w
    ELSE IF Fails(w, o)
         THEN [Called(w, "persist_summary", "-", FALSE) EXCEPT !.ret = Returns("bool", FALSE)]
    ELSE [Called(w, "persist_summary", "-", TRUE) EXCEPT
            !.S = @ (+) SetToBag({[week_start |-> start_date, week_end |-> end_date,
                                   wins_summary |-> "wins", opps_summary |-> "opps",
                                   review_count |-> review_count]}),
            !.summary_ok = TRUE,
            !.ret = Returns("bool", TRUE)]

tag_and_load_review_tags(w, o, reviews, start_date, end_date, v) ==
    IF w.raised THEN w
    ELSE IF Fails(w, o) THEN Raise(Called(w, "load_mapping", v, FALSE), "FileNotFoundError")
    ELSE IF reviews = <<>> THEN Raise(Called(w, "load_mapping", v, TRUE), "ValueError")
    ELSE Bind(Ev(Called(w, "load_mapping", v, TRUE), "tag", v, TRUE), LAMBDA done :
         Bind(tag_reviews_dataframe(reviews, load_review_categories(v), v), LAMBDA tagged :
           IF tagged = <<>> THEN done
           ELSE IF Fails(done, o)
                THEN Raise(Called(done, "persist_tags", v, FALSE), "WarehouseError")
           ELSE [Called(done, "persist_tags", v, TRUE) EXCEPT
                   !.T = @ (+) BagOfSeq(TagRowsForLoad(tagged, start_date, end_date))]))

(* --------------------------- sentiment grader ------------------------- *)
\* the categories one review mentions (each at most once): `if not text`
\* skips None and "", keywords are lower-cased but not trimmed
MentionedBy(r, categories) ==
    LET text == r.review_comment
    IN IF text = NoneVal \/ text = <<>> THEN {}
       ELSE { categories[c].category : c \in
                { c \in 1..Len(categories) :
                    \E k \in 1..Len(categories[c].keywords) :
                        /\ categories[c].keywords[k] # <<>>
                        /\ Contains(LowerStr(PyStr(text)),
                                    LowerStr(categories[c].keywords[k])) } }

\* a count of keyword hits instead of reviews
RECURSIVE count_category_mentions_every_keyword(_, _)
count_category_mentions_every_keyword(reviews, categories) ==
    IF reviews = <<>> THEN EmptyBag
    ELSE LET r == reviews[Len(reviews)]
             hits == Flatten([c \in 1..Len(categories) |->
                        SelectSeq([k \in 1..Len(categories[c].keywords) |->
                                      IF /\ r.review_comment \notin {NoneVal, <<>>}
                                         /\ categories[c].keywords[k] # <<>>
                                         /\ Contains(LowerStr(r.review_comment),
                                                     LowerStr(categories[c].keywords[k]))
                                      THEN categories[c].category ELSE ""],
                                  LAMBDA name : name # "")])
         IN count_category_mentions_every_keyword(SubSeq(reviews, 1, Len(reviews) - 1),
                                                  categories) (+) BagOfSeq(hits)

RECURSIVE count_category_mentions(_, _)
count_category_mentions(reviews, categories) ==
    IF reviews = <<>> THEN EmptyBag
    ELSE count_category_mentions(SubSeq(reviews, 1, Len(reviews) - 1), categories)
            (+) SetToBag(MentionedBy(reviews[Len(reviews)], categories))

\* entry.get(key, default)
Get(entry, key, default) == IF key \in DOMAIN entry THEN entry[key] ELSE default

\* str.lower() of a category name
LowerName(name) ==
    CASE name \in {"Care", "CARE", "care"} -> "care"
      [] name \in {"Tech", "TECH", "tech"} -> "tech"
      [] name \in {"Billing", "billing"}   -> "billing"
      [] OTHER -> name

\* a lookup that tells Tech from tech
MentionsOf_case_sensitive(mention_counts, cat) == CopiesIn(cat, mention_counts)

\* mention_lower.get(cat.lower(), 0)
MentionsOf(mention_counts, cat) ==
    LET keys == { k \in BagToSet(mention_counts) : LowerName(k) = LowerName(cat) }
    IN IF keys = {} THEN 0 ELSE CopiesIn(CHOOSE k \in keys : TRUE, mention_counts)

\* the merge of the counts into the reply; whatever goes wrong in it (text
\* that is no JSON, JSON that is no list, an element without .get) is caught
\* and answered with the diagnostic payload
MergeMentions(content, mention_counts) ==
    IF \/ content.type # "list"
       \/ \E i \in 1..Len(content.value) : content.value[i].type # "dict"
    THEN << [raw_response |-> content, mention_counts |-> mention_counts] >>
    ELSE [i \in 1..Len(content.value) |->
            [mentions |-> MentionsOf(mention_counts,
                                     Get(content.value[i].value, "category", ""))]
               @@ content.value[i].value]

\* the body of generate_sentiment_grade, which reads the default mapping;
\* every failure inside it is answered with a one-element list
generate_sentiment_grade(w, o, reviews, v) ==
    IF reviews = <<>> THEN [w EXCEPT !.graded = << [error |-> "No new reviews."] >>]
    ELSE IF Fails(w, o)
         THEN [Called(w, "load_mapping", "default", FALSE) EXCEPT
                 !.graded = << [error |-> "Failed loading categories"] >>]
    ELSE Bind(Called(w, "load_mapping", "default", TRUE), LAMBDA loaded :
         Bind(count_category_mentions(reviews, load_review_categories("default")),
              LAMBDA mention_counts :
           IF Fails(loaded, o)
           THEN [Called(loaded, "model_grade", v, FALSE) EXCEPT
                   !.graded = << [error |-> "OpenAI call failed"] >>]
           ELSE [Called(loaded, "model_grade", v, TRUE) EXCEPT
                   !.graded = MergeMentions(o.reply, mention_counts)]))

\* the module's imports in order: import datetime, then from datetime import
\* date, datetime
Imports ==
    << [name |-> "datetime", object |-> "module datetime"],
       [name |-> "date",     object |-> "class date"],
       [name |-> "datetime", object |-> "class datetime"] >>

\* what a name is bound to once the module is loaded: the last binding
Lookup(name) ==
    LET at == { i \in 1..Len(Imports) : Imports[i].name = name }
    IN Imports[CHOOSE i \in at : \A j \in at : j <= i].object

Attributes(object) ==
    CASE object = "module datetime" -> {"date", "datetime", "timedelta", "timezone"}
      [] object = "class datetime"  -> {"now", "utcnow", "fromisoformat", "isoformat"}
      [] OTHER                      -> {}

\* load_sentiment_grades: iso_now = datetime.datetime.now(datetime.timezone.utc)
\* is evaluated first; the rows that follow carry no mapping version
load_sentiment_grades(w, o, start_date, end_date, v) ==
    LET Rows(kept) ==
            [i \in 1..Len(kept) |->
               [week_start |-> start_date, week_end |-> end_date,
                review_category |-> kept[i].category,
                sentiment_grade |-> Get(kept[i], "grade", "<None>"),
                count_of_mentions |-> Get(kept[i], "mentions", 0),
                mapping_version |-> "NULL"]]
    IN IF "datetime" \notin Attributes(Lookup("datetime")) THEN Raise(w, "AttributeError")
       ELSE Bind(SelectSeq(w.graded, LAMBDA entry : Get(entry, "category", "") # ""),
                 LAMBDA kept :
         IF kept = <<>> THEN [w EXCEPT !.ret = Returns("bool", FALSE)]
         ELSE IF Fails(w, o)
              THEN [Called(w, "persist_grades", v, FALSE) EXCEPT
                      !.ret = Returns("bool", FALSE)]
         ELSE [Called(w, "persist_grades", v, TRUE) EXCEPT
                 !.G = @ (+) BagOfSeq(Rows(kept)),
                 !.ret = Returns("bool", TRUE)])

\* the drivers' call generate_sentiment_grade(reviews, output_response=True,
\* keywords_file=...) against def generate_sentiment_grade(reviews, model,
\* output_response)
CallGenerateSentimentGrade(w, o, reviews, v) ==
    IF w.raised THEN w
    ELSE IF ~CallBinds({"reviews", "model", "output_response"},
                       {"output_response", "keywords_file"})
         THEN Raise(w, "TypeError")
    ELSE generate_sentiment_grade(w, o, reviews, v)

\* the drivers' call load_sentiment_grades(start, end, graded,
\* mapping_version=...) against def load_sentiment_grades(start_date,
\* end_date, graded_data)
CallLoadSentimentGrades(w, o, start_date, end_date, v) ==
    IF w.raised THEN w
    ELSE IF ~CallBinds({"start_date", "end_date", "graded_data"}, {"mapping_version"})
         THEN Raise(w, "TypeError")
    ELSE load_sentiment_grades(w, o, start_date, end_date, v)

\* one iteration of the per-version loop
VersionStep(w, o, reviews, start_date, end_date, v) ==
    Bind(tag_and_load_review_tags(w, o, reviews, start_date, end_date, v), LAMBDA tagged :
      Bind(CallGenerateSentimentGrade(tagged, o, reviews, v), LAMBDA graded :
        CallLoadSentimentGrades(graded, o, start_date, end_date, v)))

RECURSIVE VersionLoop(_, _, _, _, _, _, _)
VersionLoop(w, o, reviews, start_date, end_date, versions, i) ==
    IF i > Len(versions) THEN w
    ELSE Bind(VersionStep(w, o, reviews, start_date, end_date, versions[i]), LAMBDA next :
           VersionLoop(next, o, reviews, start_date, end_date, versions, i + 1))

\* main.process_window
process_window(w, o, start_date, end_date) ==
    LET reviews == o.reviews
    IN Bind(get_reviews(w, o), LAMBDA w1 :
       Bind(CompletenessCheck(w1, reviews, start_date, end_date), LAMBDA w2 :
       Bind(UnpackSummaries(generate_summaries(w2, o, reviews)), LAMBDA w3 :
       Bind(VersionLoop(w3, o, reviews, start_date, end_date, VERSIONS, 1), LAMBDA w4 :
         load_summaries(w4, o, start_date, end_date, Len(reviews))))))

(* ------------------------------ drivers ------------------------------- *)
NoWindow == <<NoDate, NoDate>>

NoReport == [kind |-> "none", code |-> 0, counts |-> <<>>, weeks |-> <<>>]

Requests ==
    { <<FirstFriday, FirstFriday + 7 * k - 1>> : k \in 0..MaxWeeks } \cup
    { <<FirstFriday + s, FirstFriday + 7 * k - 1 - e>> :
        s \in 0..MaxStartShift, e \in 0..MaxEndShift, k \in 0..Min(MaxShiftedWeeks, MaxWeeks) }

\* BACKFILL_VERSIONS: the default, one version, and a list with an unknown one
VersionLists == { VERSIONS, <<"v2.0">>, <<"v1.0", "v9.9">> }

Envs(p) ==
    { [req |-> r, auto_loop |-> a, stop |-> st, align |-> al, do_delete |-> d, versions |-> vs] :
        r \in Requests,
        a \in IF p = "http" THEN BOOLEAN ELSE {FALSE},
        st \in IF p = "runner" THEN {"unset"} ELSE {"unset", "true", "false"},
        al \in IF p = "backfill" THEN BOOLEAN ELSE {TRUE},
        d \in IF p = "runner" THEN BOOLEAN ELSE {FALSE},
        vs \in IF p = "runner" THEN VersionLists ELSE {VERSIONS} }

STOP_ON_ERROR_default_false(e) == e.stop = "true"

\* os.getenv("STOP_ON_ERROR", "true").lower() == "true"
STOP_ON_ERROR(e) == IF e.stop = "unset" THEN TRUE ELSE e.stop = "true"

NoCall == [fn |-> "", arg |-> <<>>, out |-> <<>>]

InitOf(progs) ==
    /\ prog \in progs
    /\ env \in Envs(prog)
    /\ pc = "start"
    /\ rng = NoWindow
    /\ cur = NoDate
    /\ ok = 0
    /\ fail = 0
    /\ results = <<>>
    /\ attempts = <<>>
    /\ outcomes = <<>>
    /\ report = NoReport
    /\ summaryT = EmptyBag
    /\ tagsT = EmptyBag
    /\ gradesT = EmptyBag
    /\ window = NoWindow
    /\ log = <<>>
    /\ zero_days = {}
    /\ fetched = <<>>
    /\ raised = ""
    /\ source = <<>>
    /\ run = 1
    /\ prev = <<>>
    /\ call = NoCall

Init == InitOf({"http", "backfill", "runner"})

\* the external calls a window run makes when none of them fails
MainCalls(reviews, win) ==
    process_window(WindowStart(EmptyBag, EmptyBag, EmptyBag), Oracle(reviews, {}),
                   win[1], win[2]).calls

\* the effect of one window run on the tables and on the record of it
RanWindow(win, o, w) ==
    /\ window' = win
    /\ attempts' = Append(attempts, win)
    /\ outcomes' = Append(outcomes, w.exc)
    /\ log' = w.log
    /\ zero_days' = w.zero
    /\ fetched' = IF \E i \in 1..Len(w.log) : w.log[i].ev = "fetch" /\ w.log[i].ok
                  THEN o.reviews ELSE <<>>
    /\ raised' = w.exc
    /\ summaryT' = w.S
    /\ tagsT' = w.T
    /\ gradesT' = w.G

Report(kind, code, counts, weeks) ==
    [kind |-> kind, code |-> code, counts |-> counts, weeks |-> weeks]

(* main.summarize_and_load *)
HttpReject ==
    /\ prog = "http" /\ pc = "start"
    /\ env.req[1] > env.req[2]
    /\ report' = Report("http", 500, <<>>, <<>>)
    /\ pc' = "done"
    /\ UNCHANGED <<call, prog, env, rng, cur, ok, fail, results, attempts, outcomes, summaryT, tagsT,
                   gradesT, window, log, zero_days, fetched, raised, source, run, prev>>

HttpSingle ==
    /\ prog = "http" /\ pc = "start"
    /\ env.req[1] <= env.req[2]
    /\ ~env.auto_loop
    /\ \E reviews \in FetchChoices(env.req[1], env.req[2]) :
       \E fails \in FailChoices(MainCalls(reviews, env.req)) :
       \E o \in {Oracle(reviews, fails)} :
       \E w \in {process_window(WindowStart(summaryT, tagsT, gradesT), o,
                                 env.req[1], env.req[2])} :
            /\ RanWindow(env.req, o, w)
            /\ report' = Report("http", IF w.raised THEN 500 ELSE 200, <<>>, <<>>)
    /\ pc' = "done"
    /\ UNCHANGED <<call, prog, env, rng, cur, ok, fail, results, source, run, prev>>

HttpAutoStart ==
    /\ prog = "http" /\ pc = "start"
    /\ env.req[1] <= env.req[2]
    /\ env.auto_loop
    /\ rng' = <<align_to_friday(env.req[1]), align_to_thursday(env.req[2])>>
    /\ cur' = align_to_friday(env.req[1])
    /\ pc' = "loop"
    /\ UNCHANGED <<call, prog, env, ok, fail, results, attempts, outcomes, report, summaryT, tagsT,
                   gradesT, window, log, zero_days, fetched, raised, source, run, prev>>

LoopGoesOn_always_stops(failed, stop) == ~failed

LoopGoesOn_never_stops(failed, stop) == TRUE

\* whether the week loop runs another week after one that ended `failed`
LoopGoesOn(failed, stop) == ~(failed /\ stop)

HttpAutoWeek ==
    /\ prog = "http" /\ pc = "loop"
    /\ cur <= rng[2]
    /\ \E win \in {iter_weeks_yield(cur, rng[2])} :
          \E reviews \in FetchChoices(win[1], win[2]) :
          \E fails \in FailChoices(MainCalls(reviews, win)) :
          \E o \in {Oracle(reviews, fails)} :
          \E w \in {process_window(WindowStart(summaryT, tagsT, gradesT), o, win[1], win[2])} :
               /\ RanWindow(win, o, w)
               /\ results' = Append(results,
                     [week |-> win, status |-> IF w.raised THEN "failed" ELSE "success"])
               /\ ok' = IF w.raised THEN ok ELSE ok + 1
               /\ fail' = IF w.raised THEN fail + 1 ELSE fail
               /\ IF LoopGoesOn(w.raised, STOP_ON_ERROR(env))
                  THEN cur' = cur + 7 /\ pc' = "loop"
                  ELSE cur' = cur /\ pc' = "respond"
    /\ UNCHANGED <<call, prog, env, rng, report, source, run, prev>>

\* a handler that answers 200 whatever failed
status_code_always_ok(failed) == 200

\* status_code = 200 if fail == 0 else 207
status_code(failed) == IF failed = 0 THEN 200 ELSE 207

HttpAutoRespond ==
    /\ prog = "http"
    /\ \/ pc = "loop" /\ cur > rng[2]
       \/ pc = "respond"
    /\ report' = Report("http", status_code(fail), <<ok, fail>>, results)
    /\ pc' = "done"
    /\ UNCHANGED <<call, prog, env, rng, cur, ok, fail, results, attempts, outcomes, summaryT, tagsT,
                   gradesT, window, log, zero_days, fetched, raised, source, run, prev>>

(* backfill.main *)
BackfillStart ==
    /\ prog = "backfill" /\ pc = "start"
    /\ IF env.req[1] > env.req[2]
       THEN /\ report' = Report("exception", 1, <<>>, <<>>)
            /\ pc' = "done"
            /\ UNCHANGED <<rng, cur>>
       ELSE /\ rng' = IF env.align
                      THEN <<align_to_friday(env.req[1]), align_to_thursday(env.req[2])>>
                      ELSE env.req
            /\ cur' = rng'[1]
            /\ pc' = "loop"
            /\ UNCHANGED report
    /\ UNCHANGED <<call, prog, env, ok, fail, results, attempts, outcomes, summaryT, tagsT, gradesT,
                   window, log, zero_days, fetched, raised, source, run, prev>>

\* app.run_pipeline_for_window(s, e): the window's pipeline ends normally or
\* with an exception
run_pipeline_for_window == {"", "Exception"}

BackfillWeek ==
    /\ prog = "backfill" /\ pc = "loop"
    /\ cur <= rng[2]
    /\ LET win == iter_weeks_yield(cur, rng[2])
       IN \E ex \in run_pipeline_for_window :
            /\ window' = win
            /\ attempts' = Append(attempts, win)
            /\ outcomes' = Append(outcomes, ex)
            /\ raised' = ex
            /\ ok' = IF ex = "" THEN ok + 1 ELSE ok
            /\ fail' = IF ex = "" THEN fail ELSE fail + 1
            /\ IF LoopGoesOn(ex # "", STOP_ON_ERROR(env))
               THEN cur' = cur + 7 /\ pc' = "loop" /\ UNCHANGED report
               ELSE /\ cur' = cur
                    /\ pc' = "done"
                    /\ report' = Report("exception", 1, <<>>, <<>>)
    /\ UNCHANGED <<call, prog, env, rng, results, summaryT, tagsT, gradesT, log, zero_days,
                   fetched, source, run, prev>>

BackfillDone ==
    /\ prog = "backfill" /\ pc = "loop"
    /\ cur > rng[2]
    /\ report' = Report("exit", IF fail = 0 THEN 0 ELSE 1, <<ok, fail>>, <<>>)
    /\ pc' = "done"
    /\ UNCHANGED <<call, prog, env, rng, cur, ok, fail, results, attempts, outcomes, summaryT, tagsT,
                   gradesT, window, log, zero_days, fetched, raised, source, run, prev>>

(* backfill_runner.main *)
\* a delete that runs its statements but removes no row
_delete_week_window_keeps_rows(w, o, start_d, end_d, versions) ==
    IF w.raised THEN w
    ELSE IF Fails(w, o) THEN Raise(Called(w, "delete", "-", FALSE), "WarehouseError")
    ELSE Called(w, "delete", "-", TRUE)

BagKeep(B, Keep(_)) ==
    LET D == {x \in BagToSet(B) : Keep(x)} IN [x \in D |-> CopiesIn(x, B)]

InList(v, versions) == \E i \in 1..Len(versions) : versions[i] = v

\* one DELETE ... WHERE statement: it removes the rows the predicate selects
DeleteFrom(table, Selected(_)) == BagKeep(table, LAMBDA row : ~Selected(row))

\* a delete that takes every version's grade and tag rows of the week
_delete_week_window_any_version(w, o, start_d, end_d, versions) ==
    IF w.raised THEN w
    ELSE IF Fails(w, o) THEN Raise(Called(w, "delete", "-", FALSE), "WarehouseError")
    ELSE [Called(w, "delete", "-", TRUE) EXCEPT
            !.S = DeleteFrom(@, LAMBDA row : row.week_start = start_d /\ row.week_end = end_d),
            !.G = DeleteFrom(@, LAMBDA row : row.week_start = start_d /\ row.week_end = end_d),
            !.T = DeleteFrom(@, LAMBDA row : row.week_start = start_d /\ row.week_end = end_d)]

\* for v in versions: a DELETE on the sentiment table, then one on the tags
\* table, each a query of its own that may fail
RECURSIVE DeleteVersions(_, _, _, _, _, _)
DeleteVersions(w, o, start_d, end_d, versions, i) ==
    LET mine(row) == /\ row.week_start = start_d /\ row.week_end = end_d
                     /\ row.mapping_version = versions[i]
    IN IF w.raised \/ i > Len(versions) THEN w
       ELSE IF Fails(w, o)
            THEN Raise(Called(w, "delete_grades", versions[i], FALSE), "WarehouseError")
       ELSE Bind([Called(w, "delete_grades", versions[i], TRUE) EXCEPT
                    !.G = DeleteFrom(@, mine)], LAMBDA g :
              IF Fails(g, o)
              THEN Raise(Called(g, "delete_tags", versions[i], FALSE), "WarehouseError")
              ELSE DeleteVersions([Called(g, "delete_tags", versions[i], TRUE) EXCEPT
                                     !.T = DeleteFrom(@, mine)],
                                  o, start_d, end_d, versions, i + 1))

\* the summaries of the week first, then the grades and tags of each version
_delete_week_window(w, o, start_d, end_d, versions) ==
    LET week(row) == row.week_start = start_d /\ row.week_end = end_d
    IN IF w.raised THEN w
       ELSE IF Fails(w, o) THEN Raise(Called(w, "delete", "-", FALSE), "WarehouseError")
       ELSE DeleteVersions([Called(w, "delete", "-", TRUE) EXCEPT !.S = DeleteFrom(@, week)],
                           o, start_d, end_d, versions, 1)

\* a week loop that deletes the week's rows before it looks at the fetch
runner_week_deletes_before_skip(w, o, ws, we, do_delete, versions) ==
    Bind(get_reviews(w, o), LAMBDA w1 :
      IF w1.raised THEN w1
      ELSE Bind(IF do_delete THEN _delete_week_window(w1, o, ws, we, versions) ELSE w1,
                LAMBDA w2 :
             IF w2.raised THEN w2
             ELSE IF Len(o.reviews) = 0 THEN Ev(w2, "skip", "-", TRUE)
             ELSE VersionLoop(load_summaries(UnpackSummaries(
                                  generate_summaries(w2, o, o.reviews)),
                                  o, ws, we, Len(o.reviews)),
                              o, o.reviews, ws, we, versions, 1)))

\* a week loop that deletes the week's rows after it stored the summary
runner_week_deletes_after_summary(w, o, ws, we, do_delete, versions) ==
    Bind(get_reviews(w, o), LAMBDA w1 :
      IF w1.raised THEN w1
      ELSE IF Len(o.reviews) = 0 THEN Ev(w1, "skip", "-", TRUE)
      ELSE
    Bind(load_summaries(UnpackSummaries(generate_summaries(w1, o, o.reviews)),
                        o, ws, we, Len(o.reviews)), LAMBDA w2 :
    Bind(IF do_delete /\ ~w2.raised THEN _delete_week_window(w2, o, ws, we, versions) ELSE w2,
         LAMBDA w3 : VersionLoop(w3, o, o.reviews, ws, we, versions, 1))))

\* the body of the week loop
runner_week(w, o, ws, we, do_delete, versions) ==
    LET reviews == o.reviews
    IN Bind(get_reviews(w, o), LAMBDA w1 :
         IF w1.raised THEN w1
         ELSE IF Len(reviews) = 0 THEN Ev(w1, "skip", "-", TRUE)
         ELSE
       Bind(IF do_delete THEN _delete_week_window(w1, o, ws, we, versions) ELSE w1, LAMBDA w2 :
       Bind(UnpackSummaries(generate_summaries(w2, o, reviews)), LAMBDA w3 :
       Bind(load_summaries(w3, o, ws, we, Len(reviews)), LAMBDA w4 :
         VersionLoop(w4, o, reviews, ws, we, versions, 1)))))

\* a validation that looks at the first requested version only
ValidVersions_first_only(versions) == versions = <<>> \/ InList(versions[1], VERSIONS)

\* for v in versions: if v not in version_to_csv: raise RuntimeError
ValidVersions(versions) == \A i \in 1..Len(versions) : InList(versions[i], VERSIONS)

RunnerStart ==
    /\ prog = "runner" /\ pc = "start"
    /\ IF ~ValidVersions(env.versions)
       THEN /\ report' = Report("exception", 1, <<>>, <<>>)
            /\ pc' = "done"
            /\ UNCHANGED <<rng, cur>>
       ELSE /\ rng' = env.req
            /\ cur' = env.req[1]
            /\ pc' = "loop"
            /\ UNCHANGED report
    /\ UNCHANGED <<call, prog, env, ok, fail, results, attempts, outcomes, summaryT, tagsT, gradesT,
                   window, log, zero_days, fetched, raised, source, run, prev>>

\* reviews are not edited: a window read before returns the same reviews, or
\* none once the source no longer holds them
Known(win) == \E i \in 1..Len(source) : source[i].window = win

\* what the fetch of a week may return to the runner, which never looks at
\* a review's date: batches of rows dated within the week
SourceChoices(win) ==
    { r \in FetchChoices(win[1], win[2]) :
        /\ \A i \in 1..Len(r) : r[i].date \in win[1]..win[2]
        /\ \A i \in 1..Len(source) :
              source[i].window = win => r \in {source[i].reviews, <<>>} }

RunnerCalls(reviews, win) ==
    runner_week(WindowStart(EmptyBag, EmptyBag, EmptyBag), Oracle(reviews, {}),
                win[1], win[2], env.do_delete, env.versions).calls

RunnerWeek ==
    /\ prog = "runner" /\ pc = "loop"
    /\ cur <= rng[2]
    /\ \E win \in {runner_weeks_yield(cur, rng[2])} :
          \E reviews \in SourceChoices(win) :
          \E fails \in FailChoices(RunnerCalls(reviews, win)) :
          \E o \in {Oracle(reviews, fails)} :
          \E w \in {runner_week(WindowStart(summaryT, tagsT, gradesT), o, win[1], win[2],
                                 env.do_delete, env.versions)} :
               /\ RanWindow(win, o, w)
               /\ source' = IF Known(win) \/ 1 \in fails THEN source
                            ELSE Append(source, [window |-> win, reviews |-> o.reviews])
               /\ IF w.raised
                  THEN /\ cur' = cur
                       /\ pc' = "done"
                       /\ report' = Report("exception", 1, <<>>, <<>>)
                  ELSE cur' = cur + 7 /\ pc' = "loop" /\ UNCHANGED report
    /\ UNCHANGED <<call, prog, env, rng, ok, fail, results, run, prev>>

RunnerDone ==
    /\ prog = "runner" /\ pc = "loop"
    /\ cur > rng[2]
    /\ report' = Report("exit", 0, <<>>, <<>>)
    /\ pc' = "done"
    /\ UNCHANGED <<call, prog, env, rng, cur, ok, fail, results, attempts, outcomes, summaryT, tagsT,
                   gradesT, window, log, zero_days, fetched, raised, source, run, prev>>

\* the job is run again, with the same settings, against the same warehouse
RunnerAgain ==
    /\ prog = "runner" /\ pc = "done"
    /\ run = 1
    /\ run' = 2
    /\ prev' = [window |-> window, fetched |-> fetched, log |-> log, raised |-> raised,
                S |-> summaryT, T |-> tagsT, G |-> gradesT]
    /\ pc' = "start"
    /\ rng' = NoWindow
    /\ cur' = NoDate
    /\ attempts' = <<>>
    /\ outcomes' = <<>>
    /\ report' = NoReport
    /\ window' = NoWindow
    /\ log' = <<>>
    /\ zero_days' = {}
    /\ fetched' = <<>>
    /\ raised' = ""
    /\ UNCHANGED <<call, prog, env, ok, fail, results, summaryT, tagsT, gradesT, source>>

Next ==
    \/ HttpReject \/ HttpSingle \/ HttpAutoStart \/ HttpAutoWeek \/ HttpAutoRespond
    \/ BackfillStart \/ BackfillWeek \/ BackfillDone
    \/ RunnerStart \/ RunnerWeek \/ RunnerDone

Spec == Init /\ [][Next]_vars

\* backfill_runner run for one week, and then once more
\* the job is given one whole week, or two
InitRunner ==
    /\ InitOf({"runner"})
    /\ env.req \in { <<FirstFriday, FirstFriday + 6>>, <<FirstFriday, FirstFriday + 13>> }

NextRunner == RunnerStart \/ RunnerWeek \/ RunnerDone \/ RunnerAgain

SpecRunner == InitRunner /\ [][NextRunner]_vars

(* ----------------------- library functions ---------------------------- *)
\* the functions of the repository applied on their own, to inputs drawn
\* from bounded sets
Dates == (FirstFriday + 10)..(FirstFriday + 10 + MaxDate)

\* a function is applied once, to one input
Returned(fn, arg, out) == call' = [fn |-> fn, arg |-> arg, out |-> out]

ApplyLastCompleteFriToThu ==
    /\ prog = "library" /\ call.fn = NoCall.fn
    /\ \E today \in Dates :
          Returned("last_complete_fri_to_thu", today, last_complete_fri_to_thu(today))
    /\ UNCHANGED <<prog, env, pc, rng, cur, ok, fail, results, attempts, outcomes, report,
                   summaryT, tagsT, gradesT, window, log, zero_days, fetched, raised,
                   source, run, prev>>

ApplyIterWeeks ==
    /\ prog = "library" /\ call.fn = NoCall.fn
    /\ \E start \in Dates, end \in Dates :
          \/ Returned("backfill.iter_weeks", <<start, end>>, iter_weeks(start, end))
          \/ Returned("main._iter_fri_thu_weeks", <<start, end>>,
                      _iter_fri_thu_weeks(start, end))
          \/ Returned("backfill_runner._iter_fri_thu_weeks", <<start, end>>,
                      runner_iter_fri_thu_weeks(start, end))
    /\ UNCHANGED <<prog, env, pc, rng, cur, ok, fail, results, attempts, outcomes, report,
                   summaryT, tagsT, gradesT, window, log, zero_days, fetched, raised,
                   source, run, prev>>

\* an alignment, and the alignment of its result
ApplyAlign ==
    /\ prog = "library" /\ call.fn = NoCall.fn
    /\ \E d \in Dates :
          \/ Returned("align_to_friday", d,
                      <<align_to_friday(d), align_to_friday(align_to_friday(d))>>)
          \/ Returned("align_to_thursday", d,
                      <<align_to_thursday(d), align_to_thursday(align_to_thursday(d))>>)
    /\ UNCHANGED <<prog, env, pc, rng, cur, ok, fail, results, attempts, outcomes, report,
                   summaryT, tagsT, gradesT, window, log, zero_days, fetched, raised,
                   source, run, prev>>

\* the bounds of the batches handed to the tagger and the mention counter
\* the primary keys of the reviews: two reviews may carry the same one
Keys == {1, 2}

Texts == { <<"A", "b">>, <<"o", "n", " ", "a">>, <<>>, NoneVal }

Batches ==
    UNION { [1..n -> { [primary_key |-> pk, date |-> FirstFriday, review_comment |-> t] :
                          pk \in Keys, t \in Texts }] : n \in 0..MaxBatch }

\* mappings as the loader returns them, and mappings passed as they are
\* written: keywords repeated, differing in case, padded or blank
Mappings ==
    { load_review_categories(v) : v \in {"v1.0", "v2.0", "default"} } \cup
    { KeywordsCsv(v) : v \in {"v1.0", "v2.0"} } \cup
    { << [category |-> "Care", keywords |-> << <<"a">>, <<"a">>, <<"B">> >>] >> }

\* tag_reviews_dataframe, and the rows load_review_tags_to_bq makes of its result
ApplyTagger ==
    /\ prog = "library" /\ call.fn = NoCall.fn
    /\ \E reviews \in Batches, categories \in Mappings :
       \E tagged \in {tag_reviews_dataframe(reviews, categories, "v1.0")} :
          Returned("tag_reviews_dataframe",
                   [reviews |-> reviews, categories |-> categories],
                   [tagged |-> tagged,
                    persisted |-> TagRowsForLoad(tagged, FirstFriday, FirstFriday + 6)])
    /\ UNCHANGED <<prog, env, pc, rng, cur, ok, fail, results, attempts, outcomes, report,
                   summaryT, tagsT, gradesT, window, log, zero_days, fetched, raised,
                   source, run, prev>>

ApplyCountMentions ==
    /\ prog = "library" /\ call.fn = NoCall.fn
    /\ \E reviews \in Batches, categories \in Mappings :
          Returned("count_category_mentions",
                   [reviews |-> reviews, categories |-> categories],
                   count_category_mentions(reviews, categories))
    /\ UNCHANGED <<prog, env, pc, rng, cur, ok, fail, results, attempts, outcomes, report,
                   summaryT, tagsT, gradesT, window, log, zero_days, fetched, raised,
                   source, run, prev>>

\* what a call left behind: the exception it raised, if any, what it
\* returned, the external calls it made and the tables as it leaves them
Outcome(w) ==
    [raised |-> w.raised, exc |-> w.exc, ret |-> w.ret, log |-> w.log,
     S |-> w.S, T |-> w.T, G |-> w.G]

\* generate_summaries(reviews), as the module's __main__ calls it
ApplyGenerateSummaries ==
    /\ prog = "library" /\ call.fn = NoCall.fn
    /\ \E reviews \in Batches, fails \in FailChoices(2) :
       \E w \in {generate_summaries(WindowStart(EmptyBag, EmptyBag, EmptyBag),
                                    Oracle(reviews, fails), reviews)} :
          Returned("generate_summaries", [reviews |-> reviews, fails |-> fails], Outcome(w))
    /\ UNCHANGED <<prog, env, pc, rng, cur, ok, fail, results, attempts, outcomes, report,
                   summaryT, tagsT, gradesT, window, log, zero_days, fetched, raised,
                   source, run, prev>>

\* tag_and_load_review_tags(reviews, start, end, keywords_file, mapping_version)
ApplyTagAndLoad ==
    /\ prog = "library" /\ call.fn = NoCall.fn
    /\ \E reviews \in Batches, v \in {"v1.0", "v2.0"}, fails \in FailChoices(2) :
       \E w \in {tag_and_load_review_tags(WindowStart(EmptyBag, EmptyBag, EmptyBag),
                                          Oracle(reviews, fails), reviews,
                                          FirstFriday, FirstFriday + 6, v)} :
          Returned("tag_and_load_review_tags",
                   [reviews |-> reviews, fails |-> fails, mapping_version |-> v],
                   Outcome(w))
    /\ UNCHANGED <<prog, env, pc, rng, cur, ok, fail, results, attempts, outcomes, report,
                   summaryT, tagsT, gradesT, window, log, zero_days, fetched, raised,
                   source, run, prev>>

\* replies of the model to the grading prompt: text that is no JSON, a JSON
\* object, arrays of objects (categories in another case, unknown, missing,
\* empty), an array holding a string
Replies ==
    { Json("invalid", <<>>),
      Json("dict", <<>>),
      Json("list", <<>>),
      Json("list", << Json("dict", [category |-> "Tech", grade |-> "A"]) >>),
      Json("list", << Json("dict", [category |-> "tech", grade |-> "B"]),
                      Json("dict", [category |-> "Other", grade |-> "C"]) >>),
      Json("list", << Json("dict", [category |-> "TECH", grade |-> "A"]),
                      Json("dict", [grade |-> "B"]),
                      Json("dict", [category |-> "", grade |-> "D"]) >>),
      Json("list", << Json("dict", [category |-> "Tech", grade |-> "A"]),
                      Json("str", <<>>) >>) }

\* the module's __main__: graded_data = generate_sentiment_grade(reviews),
\* then load_sentiment_grades(start_date, end_date, graded_data)
ApplyGraderMain ==
    /\ prog = "library" /\ call.fn = NoCall.fn
    /\ \E reviews \in Batches, fails \in FailChoices(3), reply \in Replies :
       \E graded \in {generate_sentiment_grade(WindowStart(EmptyBag, EmptyBag, EmptyBag),
                                               OracleWith(reviews, fails, reply),
                                               reviews, "default")} :
       \E loaded \in {load_sentiment_grades(graded, OracleWith(reviews, fails, reply),
                                            FirstFriday, FirstFriday + 6, "default")} :
          Returned("sentiment_grader.__main__",
                   [reviews |-> reviews, fails |-> fails, reply |-> reply,
                    start_date |-> FirstFriday, end_date |-> FirstFriday + 6],
                   [graded_data |-> graded.graded,
                    grade |-> Outcome(graded), load |-> Outcome(loaded)])
    /\ UNCHANGED <<prog, env, pc, rng, cur, ok, fail, results, attempts, outcomes, report,
                   summaryT, tagsT, gradesT, window, log, zero_days, fetched, raised,
                   source, run, prev>>

\* rows of the week that is deleted, of the week after it, and of a window
\* that starts with the week and ends later
StoredWindows ==
    { <<FirstFriday, FirstFriday + 6>>, <<FirstFriday + 7, FirstFriday + 13>>,
      <<FirstFriday, FirstFriday + 13>> }

SummaryRow(win) == [week_start |-> win[1], week_end |-> win[2]]

VersionRow(win, v) == [week_start |-> win[1], week_end |-> win[2], mapping_version |-> v]

\* the rows a tag or grade table may hold: the week's rows of each version
\* and without one, and rows of the other windows
VersionRows ==
    { VersionRow(<<FirstFriday, FirstFriday + 6>>, v) : v \in {"v1.0", "v2.0", "NULL"} }
        \cup { VersionRow(win, "v1.0") : win \in StoredWindows }

SummaryTables ==
    { SetToBag(X) : X \in SUBSET { SummaryRow(win) : win \in StoredWindows } }

TagTables == { SetToBag(X) : X \in SUBSET VersionRows }

\* grade tables, one of them holding every row twice
GradeTables ==
    { EmptyBag, SetToBag(VersionRows), SetToBag(VersionRows) (+) SetToBag(VersionRows),
      SetToBag({ VersionRow(<<FirstFriday, FirstFriday + 6>>, "v2.0"),
                 VersionRow(<<FirstFriday + 7, FirstFriday + 13>>, "v1.0") }) }

\* _delete_week_window(start_d, end_d, versions) on tables that hold rows
ApplyDeleteWeekWindow ==
    /\ prog = "library" /\ call.fn = NoCall.fn
    /\ \E S \in SummaryTables, T \in TagTables, G \in GradeTables :
       \E versions \in { <<>>, <<"v1.0">>, <<"v1.0", "v2.0">> } :
       \E fails \in FailChoices(1 + 2 * Len(versions)) :
       \E w \in {_delete_week_window(WindowStart(S, T, G), Oracle(<<>>, fails),
                                     FirstFriday, FirstFriday + 6, versions)} :
          Returned("_delete_week_window",
                   [start_d |-> FirstFriday, end_d |-> FirstFriday + 6,
                    versions |-> versions, fails |-> fails, S |-> S, T |-> T, G |-> G],
                   Outcome(w))
    /\ UNCHANGED <<prog, env, pc, rng, cur, ok, fail, results, attempts, outcomes, report,
                   summaryT, tagsT, gradesT, window, log, zero_days, fetched, raised,
                   source, run, prev>>

InitLibrary ==
    /\ InitOf({"library"})
    /\ env.req = <<FirstFriday, FirstFriday + 6>> /\ env.stop = "unset"

NextLibrary ==
    \/ ApplyLastCompleteFriToThu \/ ApplyIterWeeks \/ ApplyAlign
    \/ ApplyTagger \/ ApplyCountMentions
    \/ ApplyGenerateSummaries \/ ApplyTagAndLoad \/ ApplyGraderMain
    \/ ApplyDeleteWeekWindow

SpecLibrary == InitLibrary /\ [][NextLibrary]_vars

(* ------------------------------ claims -------------------------------- *)
\* a driver in its week loop: AUTO_LOOP of the HTTP handler, or backfill.py
WeekLoop ==
    /\ (prog = "http" /\ env.auto_loop) \/ prog = "backfill"
    /\ rng # NoWindow

Aligned(r) == Weekday(r[1]) = FRIDAY /\ Weekday(r[2]) = THURSDAY

\* the weeks of a range, in ascending order
WeeksOf(r) ==
    [i \in 1..((r[2] - r[1] + 7) \div 7) |->
        <<r[1] + 7 * (i - 1), Min(r[1] + 7 * (i - 1) + 6, r[2])>>]

Succeeded == Cardinality({i \in 1..Len(outcomes) : outcomes[i] = ""})

Failed == Cardinality({i \in 1..Len(outcomes) : outcomes[i] # ""})

\* some week failed and it was not the last week of the range
FailedBeforeEnd ==
    \E i \in 1..Len(outcomes) : outcomes[i] # "" /\ i < Len(WeeksOf(rng))

\* C1: with stop_on_error=false a backfill over an aligned range attempts
\* every week of the range exactly once, in ascending order, whatever failed,
\* and ends with success_count = weeks that completed and failure_count =
\* weeks that raised
C1_EveryWeekOnce ==
    (WeekLoop /\ pc = "done" /\ env.stop = "false" /\ Aligned(rng)) =>
        /\ attempts = WeeksOf(rng)
        /\ <<ok, fail>> = <<Succeeded, Failed>>
        /\ report.counts = <<Succeeded, Failed>>

\* three weeks, the second failing: 2 successes, 1 failure, week 3 attempted
C1_Witness ==
    /\ WeekLoop /\ pc = "done" /\ env.stop = "false" /\ Aligned(rng)
    /\ Len(attempts) = 3
    /\ outcomes[1] = "" /\ outcomes[2] # "" /\ outcomes[3] = ""
    /\ report.counts = <<2, 1>>

\* C2: with stop_on_error=true no week is attempted after a failed one: the
\* failed week is counted (and listed as failed by the HTTP handler) and the
\* loop is left
C2_StopsAfterFailure ==
    (WeekLoop /\ env.stop = "true") =>
        /\ \A i \in 1..(Len(outcomes) - 1) : outcomes[i] = ""
        /\ Failed > 0 =>
             /\ fail = 1
             /\ pc # "loop"
             /\ prog = "http" => results[Len(results)].status = "failed"

C2_Witness ==
    /\ WeekLoop /\ env.stop = "true" /\ pc = "done"
    /\ FailedBeforeEnd
    /\ Len(attempts) < Len(WeeksOf(rng))

\* C3: when a week fails, the success count still counts the weeks that
\* completed before it, and the run ends by reporting the aggregate (success
\* count, failure count) to its caller, under either setting of stop_on_error
C3_AggregateReported ==
    (WeekLoop /\ Failed > 0) =>
        /\ ok = Succeeded
        /\ pc = "done" => report.counts = <<Succeeded, Failed>>

\* C4 as stated: with STOP_ON_ERROR unset the weeks after a failed week are
\* still attempted
C4_UnsetIsResilient ==
    (WeekLoop /\ pc = "done" /\ env.stop = "unset") => attempts = WeeksOf(rng)

\* C4 amended: with STOP_ON_ERROR unset the backfill stops on the first
\* failure: no week is attempted after a failed one
C4_UnsetStopsOnError ==
    (WeekLoop /\ env.stop = "unset") =>
        /\ \A i \in 1..(Len(outcomes) - 1) : outcomes[i] = ""
        /\ Failed > 0 => pc # "loop"

C4_Witness ==
    /\ WeekLoop /\ env.stop = "unset" /\ pc = "done"
    /\ FailedBeforeEnd
    /\ Len(attempts) < Len(WeeksOf(rng))

\* a single window was run: by the HTTP handler or by backfill_runner
WindowRun == prog \in {"http", "runner"} /\ window # NoWindow

RunVersions == IF prog = "runner" THEN env.versions ELSE VERSIONS

\* the steps of the last window run named e for version v
Steps(e, v) == {i \in 1..Len(log) : log[i].ev = e /\ log[i].v = v}

AnyStep(e) == {i \in 1..Len(log) : log[i].ev = e}

\* the days of the window on which no fetched review is dated
DaysWithout == {d \in window[1]..window[2] : \A i \in 1..Len(fetched) : fetched[i].date # d}

\* C5: when the tagger, the model or the warehouse fails for one mapping
\* version, the window run still tags every mapping version, still persists
\* the summary, and raises nothing
C5_VersionFailureIsolated ==
    (WindowRun /\ \E i \in 1..Len(log) : log[i].v # "-" /\ ~log[i].ok) =>
        /\ raised = ""
        /\ \A k \in 1..Len(RunVersions) : Steps("tag", RunVersions[k]) # {}
        /\ AnyStep("persist_summary") # {}

\* C6: with delete-before-load, a second run of the same week for the same
\* mapping versions, with the same reviews fetched and the same outcome of
\* every external call, leaves the summary, tag and grade tables as the first
\* run left them
C6_RerunSameRows ==
    (/\ prog = "runner" /\ run = 2 /\ env.do_delete
     /\ window # NoWindow /\ prev.window = window
     /\ prev.fetched = fetched /\ prev.log = log) =>
        /\ summaryT = prev.S
        /\ tagsT = prev.T
        /\ gradesT = prev.G

\* the week wrote a summary row and tag rows, and was run again
C6_Witness ==
    /\ prog = "runner" /\ run = 2 /\ env.do_delete
    /\ window # NoWindow /\ prev.window = window
    /\ prev.fetched = fetched /\ prev.log = log
    /\ AnyStep("delete") # {}
    /\ BagCardinality(summaryT) = 1
    /\ tagsT # EmptyBag

\* C7: a window with a day of zero reviews makes no model call and persists
\* no summary, tag or grade row
C7_NoOutputWhenIncomplete ==
    (WindowRun /\ AnyStep("fetch") # {} /\ log[1].ok /\ DaysWithout # {}) =>
        \A i \in 1..Len(log) :
            log[i].ev \notin {"model_wins", "model_opps", "model_grade",
                              "persist_summary", "persist_tags", "persist_grades"}

\* C8: the completeness check reports exactly the days of the window on
\* which no fetched review is dated, and the window is aborted by it if and
\* only if there is such a day
C8_ReportsZeroDays ==
    (prog = "http" /\ window # NoWindow /\ AnyStep("check") # {}) =>
        /\ zero_days = DaysWithout
        /\ (raised = "RuntimeError" /\ log[Len(log)].ev = "check") <=> DaysWithout # {}

\* one day is missing, and rows dated outside the window or undated came too
C8_Witness ==
    /\ prog = "http" /\ window # NoWindow /\ AnyStep("check") # {}
    /\ Cardinality(zero_days) = 1
    /\ raised = "RuntimeError"
    /\ \E i \in 1..Len(fetched) : fetched[i].date = NoDate
    /\ \E i \in 1..Len(fetched) : fetched[i].date > window[2]

\* C9: in a window run the summary is persisted before any mapping
\* version's tag or grade rows are
C9_SummaryPersistedFirst ==
    WindowRun =>
        \A i \in AnyStep("persist_tags") \cup AnyStep("persist_grades") :
            \E j \in AnyStep("persist_summary") : j < i

\* C10: a window run in which no external call fails makes each of the
\* summarizer's two model calls once and the grading model call once for
\* every mapping version
C10_OneCallPerVersion ==
    (/\ WindowRun /\ AnyStep("model_wins") # {}
     /\ \A i \in 1..Len(log) : log[i].ok) =>
        /\ Cardinality(AnyStep("model_wins")) = 1
        /\ Cardinality(AnyStep("model_opps")) = 1
        /\ \A k \in 1..Len(RunVersions) :
              Cardinality(Steps("model_grade", RunVersions[k])) = 1

\* C11: last_complete_fri_to_thu(today) is a Friday and the Thursday six days
\* after it, the Thursday is today or earlier, and today lies in the window
\* only as its Thursday
C11_FridayToThursday ==
    call.fn = "last_complete_fri_to_thu" =>
        LET today == call.arg
            friday == call.out[1]
            thursday == call.out[2]
        IN /\ Weekday(friday) = FRIDAY
           /\ Weekday(thursday) = THURSDAY
           /\ thursday - friday = 6
           /\ thursday < today \/ thursday = today
           /\ (friday <= today /\ today <= thursday) => today = thursday

\* asked on a Saturday: the window ended two days ago
C11_Witness ==
    /\ call.fn = "last_complete_fri_to_thu"
    /\ Weekday(call.arg) = 5
    /\ call.out = <<call.arg - 8, call.arg - 2>>

\* C12 as stated: no Thursday later than the returned one is on or before
\* today
C12_NoLaterThursdayUpToToday ==
    call.fn = "last_complete_fri_to_thu" =>
        \A t \in (call.out[2] + 1)..call.arg : Weekday(t) # THURSDAY

\* C12 amended: the returned window ended before today and no Thursday later
\* than the returned one is before today; asked on a Thursday, the window
\* returned is the one that ended seven days earlier
C12_LatestThursdayBeforeToday ==
    call.fn = "last_complete_fri_to_thu" =>
        /\ call.out[2] < call.arg
        /\ \A t \in (call.out[2] + 1)..(call.arg - 1) : Weekday(t) # THURSDAY
        /\ Weekday(call.arg) = THURSDAY => call.out[2] = call.arg - 7

C12_Witness ==
    /\ call.fn = "last_complete_fri_to_thu"
    /\ Weekday(call.arg) = THURSDAY
    /\ call.out[2] = call.arg - 7

\* the windows ws cover [start, end] without gap or overlap, seven days each
\* but possibly the last
CoversRange(ws, start, end) ==
    /\ ws # <<>>
    /\ ws[1][1] = start
    /\ ws[Len(ws)][2] = end
    /\ \A i \in 1..(Len(ws) - 1) : ws[i + 1][1] = ws[i][2] + 1 /\ ws[i][2] - ws[i][1] = 6
    /\ \A i \in 1..Len(ws) : ws[i][1] <= ws[i][2] /\ ws[i][2] - ws[i][1] <= 6

RECURSIVE SumOfLengths(_)
SumOfLengths(ws) ==
    IF ws = <<>> THEN 0 ELSE (Head(ws)[2] - Head(ws)[1] + 1) + SumOfLengths(Tail(ws))

\* C13: iter_weeks(start, end) of backfill.py and _iter_fri_thu_weeks of
\* main.py yield consecutive windows covering [start, end] without gap or
\* overlap, all of seven days but possibly the last, their lengths summing to
\* end - start + 1; and nothing when start > end
C13_WeeksCoverRange ==
    call.fn \in {"backfill.iter_weeks", "main._iter_fri_thu_weeks"} =>
        LET start == call.arg[1]
            end == call.arg[2]
        IN IF start <= end
           THEN /\ CoversRange(call.out, start, end)
                /\ SumOfLengths(call.out) = end - start + 1
           ELSE call.out = <<>>

\* more than one window, the last one shortened
C13_Witness ==
    /\ call.fn \in {"backfill.iter_weeks", "main._iter_fri_thu_weeks"}
    /\ Len(call.out) = 2
    /\ call.out[1][2] - call.out[1][1] = 6
    /\ call.out[2][2] - call.out[2][1] < 6
    /\ call.out[2][2] = call.arg[2]

\* C14: no week iterator of the repository yields a window ending after the
\* overall end
C14_NoWindowPastEnd ==
    (/\ call.fn \in {"backfill.iter_weeks", "main._iter_fri_thu_weeks",
                     "backfill_runner._iter_fri_thu_weeks"}
     /\ call.arg[1] <= call.arg[2]) =>
        \A i \in 1..Len(call.out) : call.out[i][2] <= call.arg[2]

\* C15: aligning an aligned date changes nothing: each alignment applied to
\* its own result returns it, a Friday is its own align_to_friday and a
\* Thursday its own align_to_thursday
C15_AlignIdempotent ==
    /\ call.fn \in {"align_to_friday", "align_to_thursday"} => call.out[2] = call.out[1]
    /\ (call.fn = "align_to_friday" /\ Weekday(call.arg) = FRIDAY) => call.out[1] = call.arg
    /\ (call.fn = "align_to_thursday" /\ Weekday(call.arg) = THURSDAY) =>
            call.out[1] = call.arg

\* a date that alignment moves, and that it does not move again
C15_Witness ==
    /\ call.fn = "align_to_friday"
    /\ call.out[1] < call.arg
    /\ call.out[2] = call.out[1]

\* C16: align_to_friday(d) is the latest Friday on or before d and
\* align_to_thursday(d) the earliest Thursday on or after d, each within six
\* days of d
C16_NearestFridayThursday ==
    /\ call.fn = "align_to_friday" =>
         /\ Weekday(call.out[1]) = FRIDAY
         /\ call.arg - 6 <= call.out[1] /\ call.out[1] <= call.arg
    /\ call.fn = "align_to_thursday" =>
         /\ Weekday(call.out[1]) = THURSDAY
         /\ call.arg <= call.out[1] /\ call.out[1] <= call.arg + 6

\* a Wednesday moved forward one day to its Thursday
C16_Witness ==
    /\ call.fn = "align_to_thursday"
    /\ Weekday(call.arg) = 2
    /\ call.out[1] = call.arg + 1

\* C17: every window a backfill hands to the pipeline runs from a Friday to
\* the Thursday six days later, in the auto-loop of main.py, in backfill.py
\* (aligning as by default) and in backfill_runner.py
C17_WindowsCanonical ==
    (\/ prog = "http" /\ env.auto_loop
     \/ prog = "backfill" /\ env.align
     \/ prog = "runner") =>
        \A i \in 1..Len(attempts) :
            /\ attempts[i][2] = attempts[i][1] + 6
            /\ Weekday(attempts[i][1]) = FRIDAY
            /\ Weekday(attempts[i][2]) = THURSDAY

\* the keyword as the tagger matches it
Normalised(kw) == LowerStr(Strip(kw))

\* the (review key, category, keyword) triples of a batch whose keyword,
\* lower-cased, trimmed and not empty, is a substring of the review's
\* lower-cased text
MatchingTriples(reviews, categories) ==
    UNION { { <<reviews[i].primary_key, categories[c].category,
                Normalised(categories[c].keywords[k])>> :
              k \in { k \in 1..Len(categories[c].keywords) :
                        /\ reviews[i].review_comment # NoneVal
                        /\ Normalised(categories[c].keywords[k]) # <<>>
                        /\ Contains(LowerStr(reviews[i].review_comment),
                                    Normalised(categories[c].keywords[k])) } } :
            i \in 1..Len(reviews), c \in 1..Len(categories) }

NoTwoAlike(rows, Key(_)) ==
    \A i \in 1..Len(rows) : \A j \in 1..Len(rows) : Key(rows[i]) = Key(rows[j]) => i = j

\* C18: tag_reviews_dataframe returns one row for each (review, category,
\* keyword) whose normalised keyword is a substring of the review's
\* lower-cased text, and no other row; with no match it returns an empty
\* collection
C18_RowsAreTheMatches ==
    call.fn = "tag_reviews_dataframe" =>
        LET rows == call.out.tagged
        IN /\ { TagKey(rows[i]) : i \in 1..Len(rows) } =
                  MatchingTriples(call.arg.reviews, call.arg.categories)
           /\ NoTwoAlike(rows, TagKey)

PersistedKey(row) ==
    <<row.review_foreign_key, row.category, row.keyword, row.mapping_version,
      row.week_start, row.week_end>>

\* C19: the rows one tagging run persists hold at most one row for each
\* (review_foreign_key, category, keyword, mapping_version, week_start,
\* week_end)
C19_PersistedRowsUnique ==
    call.fn = "tag_reviews_dataframe" => NoTwoAlike(call.out.persisted, PersistedKey)

\* two reviews with one primary key, both matching, under a mapping that
\* lists a keyword twice and once more in capitals
C19_Witness ==
    /\ call.fn = "tag_reviews_dataframe"
    /\ Len(call.arg.reviews) = 2
    /\ call.arg.reviews[1].primary_key = call.arg.reviews[2].primary_key
    /\ \A i \in 1..2 : call.arg.reviews[i].review_comment = <<"A", "b">>
    /\ call.arg.categories[1].keywords = << <<"a">>, <<"a">>, <<"B">> >>
    /\ Len(call.out.persisted) = 2

\* the reviews of a batch that mention category c: they have a text, and a
\* keyword of c, lower-cased, is a substring of the lower-cased text
Mentioning(reviews, cat) ==
    { i \in 1..Len(reviews) :
        /\ reviews[i].review_comment \notin {NoneVal, <<>>}
        /\ \E k \in 1..Len(cat.keywords) :
              /\ cat.keywords[k] # <<>>
              /\ Contains(LowerStr(reviews[i].review_comment), LowerStr(cat.keywords[k])) }

ContainsWord(text, kw) ==
    \E i \in 1..(Len(text) - Len(kw) + 1) :
        /\ SubSeq(text, i, i + Len(kw) - 1) = kw
        /\ i = 1 \/ text[i - 1] = " "
        /\ i + Len(kw) - 1 = Len(text) \/ text[i + Len(kw)] = " "

SingleWord(kw) == kw # <<>> /\ \A i \in 1..Len(kw) : kw[i] # " "

\* the reviews of a batch holding a keyword of the category as a whole word
MentioningWord(reviews, cat) ==
    { i \in 1..Len(reviews) :
        /\ reviews[i].review_comment \notin {NoneVal, <<>>}
        /\ \E k \in 1..Len(cat.keywords) :
              ContainsWord(LowerStr(reviews[i].review_comment), LowerStr(cat.keywords[k])) }

\* C21: count_category_mentions does not count a review for a category when
\* a keyword of the category occurs in its text only inside a longer word:
\* for a category of one-word keywords the count is the number of reviews
\* holding one of them as a whole word
C21_WholeWordsOnly ==
    call.fn = "count_category_mentions" =>
        \A c \in 1..Len(call.arg.categories) :
            (\A k \in 1..Len(call.arg.categories[c].keywords) :
                 SingleWord(call.arg.categories[c].keywords[k]))
            => CopiesIn(call.arg.categories[c].category, call.out) =
                   Cardinality(MentioningWord(call.arg.reviews, call.arg.categories[c]))

\* the reviews (by key) that have a tag row of the category
TaggedWith(rows, category) ==
    { rows[i].review_foreign_key : i \in { i \in 1..Len(rows) : rows[i].category = category } }

\* C22: the mention counter and the tagger apply one matching rule: for every
\* batch and mapping the mention count of a category is the number of
\* reviews with a tag row of that category (the reviews having distinct
\* keys), reviews without text and padded keywords included
C22_SameMatchingRule ==
    (/\ call.fn = "tag_reviews_dataframe"
     /\ NoTwoAlike(call.arg.reviews, LAMBDA r : r.primary_key)) =>
        \A c \in 1..Len(call.arg.categories) :
            CopiesIn(call.arg.categories[c].category,
                     count_category_mentions(call.arg.reviews, call.arg.categories)) =
                Cardinality(TaggedWith(call.out.tagged, call.arg.categories[c].category))

\* the external calls a library call made
CallsMade(outcome) == { outcome.log[i].ev : i \in 1..Len(outcome.log) }

\* C23: for an empty batch neither the summarizer nor the grader calls the
\* model: generate_summaries returns the marker "No new reviews." and
\* generate_sentiment_grade a one-element list holding an error marker
C23_EmptyBatchNoModelCall ==
    /\ (call.fn = "generate_summaries" /\ call.arg.reviews = <<>>) =>
          /\ CallsMade(call.out) = {}
          /\ ~call.out.raised
          /\ call.out.ret = Returns("str", "No new reviews.")
    /\ (call.fn = "sentiment_grader.__main__" /\ call.arg.reviews = <<>>) =>
          /\ CallsMade(call.out.grade) = {}
          /\ ~call.out.grade.raised
          /\ Len(call.out.graded_data) = 1
          /\ DOMAIN call.out.graded_data[1] = {"error"}

\* the grader is handed an empty batch while the model is unreachable
C23_Witness ==
    /\ call.fn = "sentiment_grader.__main__"
    /\ call.arg.reviews = <<>>
    /\ call.arg.fails = {1}
    /\ call.out.graded_data = << [error |-> "No new reviews."] >>
    /\ call.out.grade.log = <<>>

\* a model call or a warehouse call of the library call failed
ComponentCallFailed(outcome) ==
    \E i \in 1..Len(outcome.log) :
        /\ ~outcome.log[i].ok
        /\ outcome.log[i].ev \in {"model_wins", "model_opps", "model_grade",
                                  "persist_tags", "persist_grades"}

\* C24: a failure of a model call or a warehouse call inside the summarizer,
\* the tag loader or the grader is caught inside the component and returned
\* as a degraded result: no exception leaves the component
C24_FailuresCaught ==
    /\ (/\ call.fn \in {"generate_summaries", "tag_and_load_review_tags"}
        /\ ComponentCallFailed(call.out)) => ~call.out.raised
    /\ (/\ call.fn = "sentiment_grader.__main__"
        /\ ComponentCallFailed(call.out.grade)) => ~call.out.grade.raised

\* the grader's __main__ got a reply from the model
ModelReplied(c) ==
    /\ c.fn = "sentiment_grader.__main__"
    /\ \E i \in 1..Len(c.out.grade.log) :
          c.out.grade.log[i].ev = "model_grade" /\ c.out.grade.log[i].ok

\* the reply is a JSON array of objects
ArrayOfObjects(reply) ==
    /\ reply.type = "list"
    /\ \A i \in 1..Len(reply.value) : reply.value[i].type = "dict"

\* C25: a reply that is no valid JSON or no JSON array of objects does not
\* make generate_sentiment_grade raise: it returns a diagnostic payload of
\* the raw reply and the mention counts, for which the persist step stores
\* no row and reports a failed grading
C25_BadReplyIsDiagnosed ==
    (ModelReplied(call) /\ ~ArrayOfObjects(call.arg.reply)) =>
        /\ ~call.out.grade.raised
        /\ call.out.graded_data =
              << [raw_response |-> call.arg.reply,
                  mention_counts |-> count_category_mentions(call.arg.reviews,
                                         load_review_categories("default"))] >>
        /\ ~call.out.load.raised
        /\ call.out.load.G = EmptyBag
        /\ call.out.load.ret = Returns("bool", FALSE)

\* the entries of a graded list that have a category
WithCategory(graded_data) ==
    { i \in 1..Len(graded_data) : Get(graded_data[i], "category", "") # "" }

\* the insert of the grade rows was made and reported no error
InsertSucceeded(outcome) ==
    \E i \in 1..Len(outcome.log) : outcome.log[i].ev = "persist_grades" /\ outcome.log[i].ok

\* C26: load_sentiment_grades never raises; it returns true exactly when an
\* entry has a category and the insert reported no error, and false when
\* no entry has a category or the insert failed
C26_LoadReturnsFlag ==
    call.fn = "sentiment_grader.__main__" =>
        /\ ~call.out.load.raised
        /\ call.out.load.ret.type = "bool"
        /\ call.out.load.ret.value =
              (WithCategory(call.out.graded_data) # {} /\ InsertSucceeded(call.out.load))

\* C28: the grade rows persisted for a window and mapping version are one
\* row for each entry the model returned with a non-empty category, carrying
\* the window and the mapping version, and no row for any other category
C28_OneRowPerGradedCategory ==
    (/\ ModelReplied(call) /\ ArrayOfObjects(call.arg.reply)
     /\ call.arg.fails = {}) =>
        LET entries == call.arg.reply.value
            graded  == { i \in 1..Len(entries) : Get(entries[i].value, "category", "") # "" }
            rows    == call.out.load.G
        IN /\ BagCardinality(rows) = Cardinality(graded)
           /\ \A i \in graded :
                 \E row \in BagToSet(rows) :
                    /\ row.review_category = entries[i].value.category
                    /\ row.week_start = call.arg.start_date
                    /\ row.week_end = call.arg.end_date
                    /\ row.mapping_version = "default"

\* the mention count of the category of the default mapping whose name is
\* the given one ignoring case, 0 if there is none
CountIgnoringCase(reviews, name) ==
    LET cats   == load_review_categories("default")
        counts == count_category_mentions(reviews, cats)
        same   == { c \in 1..Len(cats) : LowerName(cats[c].category) = LowerName(name) }
    IN IF same = {} THEN 0 ELSE CopiesIn(cats[CHOOSE c \in same : TRUE].category, counts)

\* C29: every parsed grade entry gets as its mentions the mention count of
\* the category whose name is the entry's category ignoring case, 0 when
\* there is none; mentions is a natural number, at most the number of
\* reviews of the batch
C29_MentionsMerged ==
    (ModelReplied(call) /\ ArrayOfObjects(call.arg.reply)) =>
        /\ Len(call.out.graded_data) = Len(call.arg.reply.value)
        /\ \A i \in 1..Len(call.out.graded_data) :
              /\ call.out.graded_data[i].mentions =
                    CountIgnoringCase(call.arg.reviews,
                                      Get(call.arg.reply.value[i].value, "category", ""))
              /\ call.out.graded_data[i].mentions \in 0..Len(call.arg.reviews)

\* two reviews mention Tech, which the model names TECH; an entry without
\* category gets 0
C29_Witness ==
    /\ ModelReplied(call)
    /\ Len(call.arg.reviews) = 2
    /\ Len(call.out.graded_data) = 3
    /\ call.out.graded_data[1].category = "TECH"
    /\ call.out.graded_data[1].mentions = 2
    /\ call.out.graded_data[2].mentions = 0

\* the HTTP handler has answered
Answered == prog = "http" /\ pc = "done"

\* the last window run was aborted by the completeness check
CompletenessViolated == raised = "RuntimeError" /\ zero_days # {}

\* C27 as stated: the handler answers 200 when every processed window
\* succeeded, 207 when an auto-loop run succeeded for at least one week and
\* failed for at least one, and 500 on an unhandled failure, a completeness
\* violation included
C27_StatusAsStated ==
    Answered =>
        /\ (attempts # <<>> /\ Failed = 0) => report.code = 200
        /\ report.code = 207 <=> (env.auto_loop /\ Succeeded >= 1 /\ Failed >= 1)
        /\ CompletenessViolated => report.code = 500

\* C27 amended: a request with start after end is answered 500; a single
\* window is answered 200 if it succeeded and 500 if it raised, a
\* completeness violation included; an auto-loop run is answered 200 if no
\* week failed and 207 as soon as a week failed, whether or not any week
\* succeeded and also when the failure is a completeness violation
C27_StatusCodes ==
    Answered =>
        report.code =
            IF env.req[1] > env.req[2] THEN 500
            ELSE IF ~env.auto_loop THEN (IF Failed = 0 THEN 200 ELSE 500)
            ELSE (IF Failed = 0 THEN 200 ELSE 207)

\* an auto-loop run whose only attempted week lacked a day is answered 207
C27_Witness ==
    /\ Answered /\ env.auto_loop
    /\ CompletenessViolated
    /\ Succeeded = 0 /\ Failed = 1
    /\ report.code = 207

\* the rows of a table the delete may take
OfTheWeek(row) == row.week_start = call.arg.start_d /\ row.week_end = call.arg.end_d

OfTheWeekAndVersions(row) == OfTheWeek(row) /\ InList(row.mapping_version, call.arg.versions)

\* what is in `after` was in `before`, and every row the delete may not
\* take is in `after` as often as in `before`
OnlyRemoved(before, after, MayGo(_)) ==
    /\ \A row \in BagToSet(after) : CopiesIn(row, after) <= CopiesIn(row, before)
    /\ \A row \in BagToSet(before) : ~MayGo(row) => CopiesIn(row, after) = CopiesIn(row, before)

\* C30: _delete_week_window(start, end, versions) removes only rows with
\* week_start = start and week_end = end, and of the grade and tag tables
\* only those whose mapping_version is in versions: rows of every other
\* window, and the week's grade and tag rows of other versions, stay as they
\* were
C30_DeletesOnlyTheWeek ==
    call.fn = "_delete_week_window" =>
        /\ OnlyRemoved(call.arg.S, call.out.S, OfTheWeek)
        /\ OnlyRemoved(call.arg.T, call.out.T, OfTheWeekAndVersions)
        /\ OnlyRemoved(call.arg.G, call.out.G, OfTheWeekAndVersions)

\* the week's v1.0 rows are deleted while its v2.0 rows, its rows without a
\* version and the rows of two other windows stay
C30_Witness ==
    /\ call.fn = "_delete_week_window"
    /\ call.arg.versions = <<"v1.0">> /\ ~call.out.raised
    /\ call.arg.T = SetToBag(VersionRows)
    /\ call.arg.G = SetToBag(VersionRows) (+) SetToBag(VersionRows)
    /\ BagCardinality(call.arg.S) = 3 /\ BagCardinality(call.out.S) = 2
    /\ BagCardinality(call.out.T) = 4
    /\ BagCardinality(call.out.G) = 8
    /\ ~BagIn(VersionRow(<<FirstFriday, FirstFriday + 6>>, "v1.0"), call.out.T)

\* a step of backfill_runner's week loop: one more week was attempted
RunnerWeekStep == prog = "runner" /\ Len(attempts') = Len(attempts) + 1

\* the week's fetch succeeded and returned no review
FetchedNothing(steps, reviews) ==
    steps # <<>> /\ steps[1] = [ev |-> "fetch", v |-> "-", ok |-> TRUE] /\ reviews = <<>>

\* C31: in backfill_runner a week whose fetch returns no review changes
\* nothing: no row is deleted, also with delete-before-load, no model call
\* is made, no row is inserted, and the run goes on to the next week
C31_EmptyWeekChangesNothing ==
    [][(RunnerWeekStep /\ FetchedNothing(log', fetched')) =>
          /\ summaryT' = summaryT /\ tagsT' = tagsT /\ gradesT' = gradesT
          /\ log' = << [ev |-> "fetch", v |-> "-", ok |-> TRUE],
                       [ev |-> "skip", v |-> "-", ok |-> TRUE] >>
          /\ raised' = ""
          /\ pc' = "loop" /\ cur' = cur + 7 /\ report' = report]_vars

\* with delete-before-load, the first of two weeks has rows from an earlier
\* run and now fetches nothing: its rows are still there, and the second
\* week is up next
C31_Witness ==
    /\ prog = "runner" /\ env.do_delete /\ run = 2 /\ pc = "loop"
    /\ FetchedNothing(log, fetched)
    /\ window = <<FirstFriday, FirstFriday + 6>> /\ cur = FirstFriday + 7 /\ cur <= rng[2]
    /\ \E row \in BagToSet(summaryT) : row.week_start = window[1] /\ row.week_end = window[2]
    /\ \E row \in BagToSet(tagsT) : row.week_start = window[1] /\ row.week_end = window[2]

\* the steps of the last week run that delete, and those that insert
DeleteSteps == AnyStep("delete") \cup AnyStep("delete_grades") \cup AnyStep("delete_tags")

InsertSteps ==
    AnyStep("persist_summary") \cup AnyStep("persist_tags") \cup AnyStep("persist_grades")

\* C32: in backfill_runner with delete-before-load a week's rows are deleted
\* after the week's reviews were fetched and before any of its summary, tag
\* or grade rows is inserted (every delete statement has run by then), and
\* the weeks are processed one after another: a week is started only when
\* the week before it has ended, and it lies after that week
C32_DeleteThenInsertWeekByWeek ==
    (prog = "runner" /\ env.do_delete) =>
        /\ \A d \in DeleteSteps :
              /\ \E f \in AnyStep("fetch") : f < d /\ log[f].ok
              /\ \A i \in InsertSteps : d < i
        /\ InsertSteps # {} =>
              /\ Cardinality(DeleteSteps) = 1 + 2 * Len(env.versions)
              /\ \A d \in DeleteSteps : log[d].ok
        /\ Len(outcomes) = Len(attempts)
        /\ \A n \in 1..(Len(attempts) - 1) :
              /\ outcomes[n] = ""
              /\ attempts[n][2] < attempts[n + 1][1]

\* the first week fetched nothing; the second deleted its rows for the one
\* version asked for, then stored its summary and its tag rows
C32_Witness ==
    /\ prog = "runner" /\ env.do_delete /\ env.versions = <<"v2.0">>
    /\ Len(attempts) = 2 /\ Len(log) > 4
    /\ log[1].ev = "fetch" /\ log[2].ev = "delete"
    /\ log[3].ev = "delete_grades" /\ log[4].ev = "delete_tags"
    /\ AnyStep("persist_summary") # {} /\ AnyStep("persist_tags") # {}
    /\ summaryT # EmptyBag /\ tagsT # EmptyBag

\* C33: backfill_runner validates every requested mapping version before it
\* processes anything: with an unknown version among them the run fails
\* with an error and no week is fetched, deleted, summarized, tagged or
\* graded
C33_UnknownVersionFailsFirst ==
    (prog = "runner" /\ \E i \in 1..Len(env.versions) : env.versions[i] \notin
                                                          {"v1.0", "v2.0", "v3.0"}) =>
        /\ attempts = <<>> /\ log = <<>> /\ fetched = <<>>
        /\ summaryT = EmptyBag /\ tagsT = EmptyBag /\ gradesT = EmptyBag
        /\ pc \in {"start", "done"}
        /\ pc = "done" => report = Report("exception", 1, <<>>, <<>>)

\* the second of two requested versions is unknown: the job has failed
\* without touching a week
C33_Witness ==
    /\ prog = "runner" /\ pc = "done"
    /\ env.versions = <<"v1.0", "v9.9">>
    /\ report.kind = "exception"
    /\ attempts = <<>> /\ log = <<>>

====
